---- MODULE Spec2Model ----
(***************************************************************************)
(* The POST handler of src/app/api/summarize/route.ts: one request taken   *)
(* from the question to the response, through the Google search, the      *)
(* per-submission Reddit fetch and Groq summary, the relevance filter,    *)
(* the Groq synthesis and the confidence score.  Text is kept as strings  *)
(* and the text functions (toLowerCase, includes, trim, the submission-id *)
(* regular expression) work on its characters.                            *)
(***************************************************************************)
EXTENDS Integers, Sequences, FiniteSets, TLC

\* ---------------------------------------------------------------- constants

MAX_REDDIT_POSTS_TO_PROCESS == 5
MAX_COMMENTS_PER_POST == 3
IRRELEVANT_SUMMARY_KEYWORDS ==
    << "does not provide any information",
       "is not about",
       "no relevant information",
       "unrelated to the question",
       "has nothing to do with",
       "not relevant to the question",
       "irrelevant to the question" >>

\* The longest list of items a search response carries in the model (the request
\* asks for 10 results, line 38).
MaxItems == 10

\* The longest list of items where the model takes the summaries from the larger
\* pool of texts.
MaxFilterItems == 5

\* The longest list of comments where the model takes every list of comments.
MaxComments == 5

\* ------------------------------------------------------------ text functions

\* The characters of s from index a to index b (1-based, both ends clipped to s).
Slice(s, a, b) ==
    LET lo == IF a < 1 THEN 1 ELSE a
        hi == IF b > Len(s) THEN Len(s) ELSE b
    IN  IF lo > hi THEN "" ELSE SubSeq(s, lo, hi)

\* String.prototype.charAt: "" outside the string
CharAt(s, i) == IF i \in 1..Len(s) THEN SubSeq(s, i, i) ELSE ""

UpperChars == "ABCDEFGHIJKLMNOPQRSTUVWXYZ"
LowerChars == "abcdefghijklmnopqrstuvwxyz"
DigitChars == "0123456789"

CharsOf(alphabet) == { SubSeq(alphabet, i, i) : i \in 1..Len(alphabet) }

\* The lower-case letter of each upper-case letter
LowerOf ==
    [c \in CharsOf(UpperChars) |->
        LET i == CHOOSE j \in 1..Len(UpperChars) : SubSeq(UpperChars, j, j) = c
        IN  SubSeq(LowerChars, i, i)]

LowerChar(c) == IF c \in DOMAIN LowerOf THEN LowerOf[c] ELSE c

\* String.prototype.toLowerCase
RECURSIVE toLowerCase(_)
toLowerCase(s) ==
    IF Len(s) = 0 THEN "" ELSE LowerChar(Head(s)) \o toLowerCase(Tail(s))

\* String.prototype.includes
includes(s, k) ==
    \E i \in 1..(Len(s) - Len(k) + 1) : SubSeq(s, i, i + Len(k) - 1) = k

IsWhiteSpace(c) == c \in {" ", "\n", "\t"}

\* String.prototype.trim
RECURSIVE trimStart(_)
trimStart(s) ==
    IF Len(s) > 0 /\ IsWhiteSpace(Head(s)) THEN trimStart(Tail(s)) ELSE s

RECURSIVE trimEnd(_)
trimEnd(s) ==
    IF Len(s) > 0 /\ IsWhiteSpace(CharAt(s, Len(s)))
    THEN trimEnd(Slice(s, 1, Len(s) - 1))
    ELSE s

trim(s) == trimEnd(trimStart(s))

\* ---------------------------------------------------------- helper functions

\* [a-z0-9] under the i flag
IdChars == CharsOf(LowerChars) \cup CharsOf(UpperChars) \cup CharsOf(DigitChars)
IsIdChar(c) == c \in IdChars

\* The index of the first "/" of url at or after index from, 0 when there is none.
FirstSlash(url, from) ==
    IF \E q \in from..Len(url) : CharAt(url, q) = "/"
    THEN CHOOSE q \in from..Len(url) :
            /\ CharAt(url, q) = "/"
            /\ \A j \in from..(q - 1) : CharAt(url, j) # "/"
    ELSE 0

\* The lengths n for which ([a-z0-9]{6,10})(\/|$) matches url at index t.
IdLengthsAt(url, t) ==
    { n \in 6..10 :
        /\ t + n - 1 <= Len(url)
        /\ \A j \in t..(t + n - 1) : IsIdChar(CharAt(url, j))
        /\ (t + n > Len(url) \/ CharAt(url, t + n) = "/") }

\* The capture group of /reddit\.com\/r\/[^\/]+\/comments\/([a-z0-9]{6,10})(\/|$)/i
\* for a match that starts at index p of url, lower being url in lower case (the
\* i flag); "" when no match starts there.
SubmissionIdAt(url, lower, p) ==
    LET s == p + Len("reddit.com/r/")
        q == FirstSlash(url, s)
        t == q + Len("/comments/")
    IN  IF /\ Slice(lower, p, s - 1) = "reddit.com/r/"
           /\ q > s
           /\ Slice(lower, q, t - 1) = "/comments/"
           /\ IdLengthsAt(url, t) # {}
        THEN SubSeq(url, t, t + (CHOOSE n \in IdLengthsAt(url, t) : TRUE) - 1)
        ELSE ""

\* url.match(...): the leftmost match gives the id. null is written "": the
\* capture group is never empty, and the only use of the result (line 105) tests
\* its truthiness.
extractRedditSubmissionId(url) ==
    LET lower == toLowerCase(url)
        starts == { p \in 1..Len(url) : SubmissionIdAt(url, lower, p) # "" }
    IN  IF starts = {} THEN ""
        ELSE SubmissionIdAt(url, lower, CHOOSE p \in starts : \A r \in starts : p <= r)

\* isSummaryRelevant without the lower-casing
isSummaryRelevantCaseSensitive(summary) ==
    ~ \E i \in 1..Len(IRRELEVANT_SUMMARY_KEYWORDS) :
        includes(summary, IRRELEVANT_SUMMARY_KEYWORDS[i])

isSummaryRelevant(summary) ==
    LET lowerCaseSummary == toLowerCase(summary)
    IN  ~ \E i \in 1..Len(IRRELEVANT_SUMMARY_KEYWORDS) :
            includes(lowerCaseSummary, IRRELEVANT_SUMMARY_KEYWORDS[i])

\* calculateConfidence without the ceiling
calculateConfidenceNoCeiling(relevantSourcesCount) ==
    50 + (relevantSourcesCount * 10)

calculateConfidence(relevantSourcesCount) ==
    LET score == 50 + (relevantSourcesCount * 10)
    IN  IF score < 95 THEN score ELSE 95

\* An add that does not look for the id among those found
setAddNoDedup(ids, id) == Append(ids, id)

\* Set.prototype.add on the insertion-ordered foundIds (line 106)
setAdd(ids, id) ==
    IF \E i \in 1..Len(ids) : ids[i] = id THEN ids ELSE Append(ids, id)

\* (comment.score || 0): a comment without a score counts as 0
scoreOr0(c) == IF c.hasScore THEN c.score ELSE 0

\* The insertion that puts comment c before the comments of its own score
RECURSIVE insertBeforeTies(_, _)
insertBeforeTies(sorted, c) ==
    IF Len(sorted) = 0 THEN << c >>
    ELSE IF scoreOr0(Head(sorted)) > scoreOr0(c)
         THEN << Head(sorted) >> \o insertBeforeTies(Tail(sorted), c)
         ELSE << c >> \o sorted

\* The stable insertion of comment c into a list sorted by (score || 0), highest first.
RECURSIVE insertByScore(_, _)
insertByScore(sorted, c) ==
    IF Len(sorted) = 0 THEN << c >>
    ELSE IF scoreOr0(Head(sorted)) >= scoreOr0(c)
         THEN << Head(sorted) >> \o insertByScore(Tail(sorted), c)
         ELSE << c >> \o sorted

\* comments.sort((a, b) => (b.score || 0) - (a.score || 0)): a stable sort
RECURSIVE sortByScore(_)
sortByScore(comments) ==
    IF Len(comments) = 0 THEN << >>
    ELSE insertByScore(sortByScore(SubSeq(comments, 1, Len(comments) - 1)),
                       comments[Len(comments)])

\* .sort(...).slice(0, MAX_COMMENTS_PER_POST) (lines 148-151)
topCommentsOf(comments) ==
    LET sorted == sortByScore(comments)
    IN  SubSeq(sorted, 1, IF Len(sorted) < MAX_COMMENTS_PER_POST
                          THEN Len(sorted) ELSE MAX_COMMENTS_PER_POST)

\* topComments.map((comment, index) => `${index + 1}. ${comment.body}`).join('\n')
RECURSIVE commentsTextOf(_, _)
commentsTextOf(top, n) ==
    IF n = 0 THEN ""
    ELSE (IF n = 1 THEN "" ELSE commentsTextOf(top, n - 1) \o "\n")
         \o ToString(n) \o ". " \o top[n].body

\* -------------------------------------------------------- the environment

\* The request bodies: text that is not JSON, the JSON null, a JSON array, and
\* objects whose question is a string, a number, an object or absent.
RequestPool ==
    { [body |-> "malformed", qtype |-> "undefined", question |-> ""],
      [body |-> "null",      qtype |-> "undefined", question |-> ""],
      [body |-> "array",     qtype |-> "undefined", question |-> ""],
      [body |-> "object",    qtype |-> "undefined", question |-> ""],
      [body |-> "object",    qtype |-> "number",    question |-> ""],
      [body |-> "object",    qtype |-> "object",    question |-> ""],
      [body |-> "object",    qtype |-> "string",    question |-> ""],
      [body |-> "object",    qtype |-> "string",    question |-> "best budget laptop"] }

\* process.env at module load (lines 22-37): whether each setting has a value
\* (is truthy; unset and empty are alike to the test of line 80).
EnvNames ==
    { "GOOGLE_API_KEY", "GOOGLE_CSE_ID", "REDDIT_CLIENT_ID", "REDDIT_CLIENT_SECRET",
      "REDDIT_USERNAME", "REDDIT_PASSWORD", "GROQ_API_KEY" }
ProcessEnvPool == [EnvNames -> BOOLEAN]

\* The environments in which the Reddit and the Groq client have their settings.
EnvPool ==
    { e \in ProcessEnvPool :
        \A n \in EnvNames \ {"GOOGLE_API_KEY", "GOOGLE_CSE_ID"} : e[n] }

\* Search results: a thread URL built from its parts, a subreddit listing, or an
\* item without a link.
Url(p) ==
    IF p.shape = "thread"
    THEN "https://" \o p.host \o "/r/" \o p.sub \o "/comments/" \o p.id \o p.rest
    ELSE IF p.shape = "listing"
         THEN "https://" \o p.host \o "/r/" \o p.sub \o "/"
         ELSE ""

LinkPool ==
    << [shape |-> "thread",  host |-> "www.reddit.com", sub |-> "laptops",  id |-> "1abcd2",      rest |-> "/best_budget_laptop/"],
       [shape |-> "thread",  host |-> "reddit.com",     sub |-> "a",        id |-> "zk39x0q",     rest |-> ""],
       [shape |-> "thread",  host |-> "old.reddit.com", sub |-> "b_c",      id |-> "q7w8e9r0t1",  rest |-> "/"],
       [shape |-> "thread",  host |-> "www.reddit.com", sub |-> "Laptops",  id |-> "AbC123",      rest |-> "/t/"],
       [shape |-> "thread",  host |-> "www.reddit.com", sub |-> "d",        id |-> "m5n6b7",      rest |-> "/"],
       [shape |-> "thread",  host |-> "www.reddit.com", sub |-> "e",        id |-> "00x1y2z",     rest |-> "/x/?sort=top"],
       [shape |-> "thread",  host |-> "reddit.com",     sub |-> "other",    id |-> "1abcd2",      rest |-> ""],
       [shape |-> "thread",  host |-> "www.reddit.com", sub |-> "f",        id |-> "ab12c",       rest |-> "/"],
       [shape |-> "thread",  host |-> "www.reddit.com", sub |-> "g",        id |-> "0123456789a", rest |-> "/"],
       [shape |-> "thread",  host |-> "example.com",    sub |-> "h",        id |-> "ex4mpl3",     rest |-> "/"],
       [shape |-> "thread",  host |-> "www.Reddit.com", sub |-> "i",        id |-> "c4p1t4l",     rest |-> "/"],
       [shape |-> "listing", host |-> "www.reddit.com", sub |-> "laptops",  id |-> "",            rest |-> ""],
       [shape |-> "nolink",  host |-> "",               sub |-> "",         id |-> "",            rest |-> ""] >>

\* The one result page of the full pipeline: which LinkPool entry stands at each
\* position (positions past the end wrap around).
PageOrder == << 12, 10, 1, 2, 7, 3, 13, 4, 5, 6 >>
PageLink(k) == Url(LinkPool[PageOrder[((k - 1) % Len(PageOrder)) + 1]])

\* A comment of a fetched submission.
Comment(body, hasScore, score) == [body |-> body, hasScore |-> hasScore, score |-> score]

\* submission.comments: missing, not an array, or an array.
CommentsPool ==
    { [kind |-> "undefined", list |-> << >>],
      [kind |-> "object",    list |-> << >>],
      [kind |-> "array",     list |-> << >>],
      [kind |-> "array",     list |-> << Comment("Get the X1.", TRUE, 7) >>],
      [kind |-> "array",     list |-> << Comment("low", TRUE, 1), Comment("none", FALSE, 0),
                                         Comment("top", TRUE, 9), Comment("tie", TRUE, 1),
                                         Comment("neg", TRUE, -2) >>] }

\* The scores of a comment: missing, 0, 1, 2 or -1.
ScorePool ==
    { [hasScore |-> FALSE, score |-> 0], [hasScore |-> TRUE, score |-> 0],
      [hasScore |-> TRUE, score |-> 1],  [hasScore |-> TRUE, score |-> 2],
      [hasScore |-> TRUE, score |-> -1] }

\* The list of n comments with the scores f[1], ..., f[n], the body of each
\* naming its place in the list.
CommentListOf(f, n) ==
    [i \in 1..n |-> Comment("c" \o ToString(i), f[i].hasScore, f[i].score)]

\* What r.getSubmission(id).fetch() resolves to.
SubmissionPool(id) ==
    { [permalink |-> pl, title |-> "Laptop advice", selftext |-> st, comments |-> c] :
        pl \in {"/r/laptops/comments/" \o id \o "/thread/", ""},
        st \in {""},
        c \in CommentsPool }

\* What the Reddit client rejects with: request-promise errors carrying the HTTP
\* statusCode, or an error without one.
RedditErrorPool ==
    { [name |-> "StatusCodeError", hasStatusCode |-> TRUE,  statusCode |-> 401, hasStatus |-> FALSE, status |-> 0, message |-> "401 - Unauthorized"],
      [name |-> "StatusCodeError", hasStatusCode |-> TRUE,  statusCode |-> 404, hasStatus |-> FALSE, status |-> 0, message |-> "404 - Not Found"],
      [name |-> "RequestError",    hasStatusCode |-> FALSE, statusCode |-> 0,   hasStatus |-> FALSE, status |-> 0, message |-> "ETIMEDOUT"] }

\* What the Groq client rejects with: APIError subclasses carrying the HTTP status
\* in .status, or a connection error without one.
GroqErrorPool ==
    { [name |-> "AuthenticationError", hasStatusCode |-> FALSE, statusCode |-> 0, hasStatus |-> TRUE,  status |-> 401, message |-> "401 Invalid API Key"],
      [name |-> "RateLimitError",      hasStatusCode |-> FALSE, statusCode |-> 0, hasStatus |-> TRUE,  status |-> 429, message |-> "429 Rate limit reached"],
      [name |-> "APIConnectionError",  hasStatusCode |-> FALSE, statusCode |-> 0, hasStatus |-> FALSE, status |-> 0,   message |-> "Connection error."] }

\* A chat completion: choices[0]?.message?.content, absent when there is no choice.
Completion(hasContent, content) == [hasContent |-> hasContent, content |-> content]

SummaryCompletionPool ==
    { Completion(FALSE, ""),
      Completion(TRUE, "   "),
      Completion(TRUE, " Get the X1.\n"),
      Completion(TRUE, "This thread Is Not About laptops.") }

SynthesisCompletionPool ==
    { Completion(FALSE, ""),
      Completion(TRUE, "\n"),
      Completion(TRUE, "## Answer\n* X1\n") }

\* A larger pool of summaries: each marker in some letter case, and texts that
\* come close to a marker.
FilterCompletionPool ==
    SummaryCompletionPool \cup
    { Completion(TRUE, "The post DOES NOT PROVIDE ANY INFORMATION on laptops."),
      Completion(TRUE, "No relevant information here.\n"),
      Completion(TRUE, "It is Unrelated to the Question."),
      Completion(TRUE, "It has nothing to do with laptops"),
      Completion(TRUE, "Not Relevant To The Question"),
      Completion(TRUE, "  irrelevant to the question."),
      Completion(TRUE, "ThIS NOT ABOUT price"),
      Completion(TRUE, "This is not  about price"),
      Completion(TRUE, "Not relevant, to the question"),
      Completion(TRUE, "It isnot about that, it has no thing to do with it") }

\* The texts a summary can have: the trimmed, non-empty contents of the pools.
SummaryTexts ==
    { trim(c.content) : c \in { d \in FilterCompletionPool : d.hasContent } } \ {""}

\* isSummaryRelevant and extractRedditSubmissionId, tabulated once over the
\* summaries and the links of the model.
summaryRelevance == [t \in SummaryTexts |-> isSummaryRelevant(t)]
linkSubmissionId ==
    [link \in { Url(LinkPool[k]) : k \in 1..Len(LinkPool) } |-> extractRedditSubmissionId(link)]

\* initialSummaries.filter(s => isSummaryRelevant(s.summary)) (lines 200-205)
filterRelevant(summaries) ==
    SelectSeq(summaries, LAMBDA s : summaryRelevance[s.summary])

\* What the Google request ends in when it does not deliver a result page.
GoogleFailurePool ==
    { [kind |-> "rejects", status |-> 0,   message |-> "fetch failed"],
      [kind |-> "notJson", status |-> 200, message |-> "Unexpected token < in JSON at position 0"],
      [kind |-> "notOk",   status |-> 403, message |-> "The request is missing a valid API key."],
      [kind |-> "notOk",   status |-> 500, message |-> ""] }

\* Result pages that are JSON with status ok but not of the documented shape:
\* the JSON null, items that is a number or a text, an item whose link is a number.
GoogleMalformedPool ==
    { [shape |-> "dataNull",    throws |-> TRUE,  taken |-> 0,
       message |-> "Cannot read properties of null (reading 'items')"],
      [shape |-> "itemsNumber", throws |-> FALSE, taken |-> 0, message |-> ""],
      [shape |-> "itemsString", throws |-> FALSE, taken |-> 1, message |-> ""],
      [shape |-> "linkNumber",  throws |-> TRUE,  taken |-> 1,
       message |-> "item.link.includes is not a function"] }

\* ------------------------------------------------------------------ state

VARIABLES
    request,              \* the request body
    env,                  \* process.env
    pc,                   \* where the handler stands: "received", an await, "done"
    responses,            \* the responses returned so far
    calls,                \* the external calls issued so far, in order
    searchResult,         \* how the search request ended: "" while it has not
    outcome,              \* what the await of the last step delivered
    examined,             \* how many of googleData.items the loop has taken
    item,                 \* the link of the item the loop took last
    itemsLeft,            \* whether items followed the one taken last
    foundIds,             \* foundIds, in insertion order
    redditSubmissionIds,
    idx,                  \* the position of submissionId in redditSubmissionIds
    submission,           \* the submission as fetched for submissionId
    topComments,
    postLink,
    summaryPrompt,
    initialSummaries,
    summaryOrigin,        \* the submission id each initial summary was made for
    relevantSummaries,
    relevantSources,
    synthesisPrompt

vars ==
    << request, env, pc, responses, calls, searchResult, outcome, examined, item,
       itemsLeft, foundIds,
       redditSubmissionIds, idx, submission, topComments, postLink, summaryPrompt,
       initialSummaries,
       summaryOrigin, relevantSummaries, relevantSources, synthesisPrompt >>

discoveryVars == << examined, item, itemsLeft, foundIds >>
loopVars ==
    << idx, submission, topComments, postLink, summaryPrompt, initialSummaries, summaryOrigin >>
synthesisVars == << relevantSummaries, relevantSources, synthesisPrompt >>

Call(api, arg) == [api |-> api, arg |-> arg]

NoError ==
    [name |-> "", hasStatusCode |-> FALSE, statusCode |-> 0, hasStatus |-> FALSE, status |-> 0,
     message |-> ""]
NoCompletion == [hasContent |-> FALSE, content |-> ""]
NoComments == [kind |-> "undefined", list |-> << >>]
NoOutcome ==
    [stage |-> "", threw |-> FALSE, error |-> NoError, completion |-> NoCompletion,
     comments |-> NoComments]
Threw(stage, error) ==
    [stage |-> stage, threw |-> TRUE, error |-> error, completion |-> NoCompletion,
     comments |-> NoComments]
Returned(stage, completion) ==
    [stage |-> stage, threw |-> FALSE, error |-> NoError, completion |-> completion,
     comments |-> NoComments]
\* The fetch delivered a submission with these comments
Fetched(comments) ==
    [stage |-> "fetch", threw |-> FALSE, error |-> NoError, completion |-> NoCompletion,
     comments |-> comments]

NoPrompt == [question |-> "", title |-> "", selftext |-> "", commentsText |-> ""]
NoSynthesisPrompt == [question |-> "", combinedContent |-> ""]
NoSubmission ==
    [permalink |-> "", title |-> "", selftext |-> "", comments |-> NoComments]

\* The handler at its entry.
InitHandler ==
    /\ pc = "received"
    /\ responses = << >>
    /\ calls = << >>
    /\ searchResult = ""
    /\ outcome = NoOutcome
    /\ examined = 0
    /\ item = ""
    /\ itemsLeft = FALSE
    /\ foundIds = << >>
    /\ redditSubmissionIds = << >>
    /\ idx = 0
    /\ submission = NoSubmission
    /\ topComments = << >>
    /\ postLink = ""
    /\ summaryPrompt = NoPrompt
    /\ initialSummaries = << >>
    /\ summaryOrigin = << >>
    /\ relevantSummaries = << >>
    /\ relevantSources = << >>
    /\ synthesisPrompt = NoSynthesisPrompt

Init ==
    /\ request \in RequestPool
    /\ env \in EnvPool
    /\ InitHandler

\* ---------------------------------------------------------------- responses

ErrorBody(message) == [error |-> message]
AnswerBody(finalSummary, sources, confidenceScore) ==
    [finalSummary |-> finalSummary, sources |-> sources, confidenceScore |-> confidenceScore]

\* return NextResponse.json(body, { status })
Respond(status, body) ==
    /\ responses' = Append(responses, [status |-> status, body |-> body])
    /\ pc' = "done"

\* The answer for no ids carrying the score of the answer for no relevant summary
NotFoundBodyScore15 ==
    AnswerBody("Could not find relevant Reddit discussions via Google for this question.", << >>, 15)

NotFoundBody ==
    AnswerBody("Could not find relevant Reddit discussions via Google for this question.", << >>, 0)

\* The answer for no relevant summary carrying calculateConfidence(0)
NoAnswersBodyScore50 ==
    AnswerBody("Found some Reddit discussions via Google, but couldn't extract direct answers.", << >>, 50)

NoAnswersBody ==
    AnswerBody("Found some Reddit discussions via Google, but couldn't extract direct answers.", << >>, 15)

\* ------------------------------------------------------------------ actions

\* Lines 72-92: the body is parsed, the question and the configuration are
\* checked, and the search request is sent.
Receive ==
    /\ pc = "received"
    /\ UNCHANGED << request, env, searchResult, outcome, discoveryVars, redditSubmissionIds,
                    loopVars, synthesisVars >>
    /\ IF request.body = "malformed"
       THEN Respond(400, ErrorBody("Invalid JSON in request body.")) /\ calls' = calls
       ELSE IF request.body = "null"
       THEN Respond(500, ErrorBody("Cannot destructure property 'question' of '(intermediate value)' as it is null."))
            /\ calls' = calls
       ELSE IF request.qtype # "string" \/ request.question = ""
       THEN Respond(400, ErrorBody("Invalid question provided")) /\ calls' = calls
       ELSE IF ~env.GOOGLE_API_KEY \/ ~env.GOOGLE_CSE_ID
       THEN Respond(500, ErrorBody("Server configuration error.")) /\ calls' = calls
       ELSE /\ pc' = "search"
            /\ calls' = Append(calls, Call("google.search", request.question \o " reddit"))
            /\ responses' = responses

\* Lines 92-98 and 119-123: the search request rejects, its body is not JSON, or
\* its status is not ok.
SearchFails(f) ==
    /\ pc = "search"
    /\ searchResult' = f.kind
    /\ Respond(500, ErrorBody(
           IF f.kind = "notOk" /\ f.message = ""
           THEN "Google Search API failed with status " \o ToString(f.status)
           ELSE f.message))
    /\ UNCHANGED << request, env, calls, outcome, discoveryVars, redditSubmissionIds, loopVars,
                    synthesisVars >>

\* Lines 125-133 and 138: the ids found become redditSubmissionIds; with none the
\* handler answers, otherwise the first submission is requested.
BeginLoop(ids) ==
    /\ redditSubmissionIds' = ids
    /\ UNCHANGED << submission, topComments, postLink, summaryPrompt, initialSummaries,
                    summaryOrigin, synthesisVars >>
    /\ IF Len(ids) = 0
       THEN Respond(200, NotFoundBody) /\ idx' = idx /\ calls' = calls
       ELSE /\ pc' = "fetch"
            /\ idx' = 1
            /\ calls' = Append(calls, Call("reddit.getSubmission", ids[1]))
            /\ responses' = responses

\* Lines 93-100: the result page has no items (missing or empty).
SearchNoItems ==
    /\ pc = "search"
    /\ searchResult' = "ok"
    /\ BeginLoop(<< >>)
    /\ UNCHANGED << request, env, outcome, discoveryVars >>

\* Lines 93-102: the result page has items, and the loop over them starts.
SearchItems ==
    /\ pc = "search"
    /\ pc' = "scan"
    /\ searchResult' = "ok"
    /\ UNCHANGED << request, env, responses, calls, outcome, discoveryVars,
                    redditSubmissionIds, loopVars, synthesisVars >>

\* Lines 93-128 on a result page that is not of the documented shape. For the
\* JSON null, reading googleData.items throws; items that is a number has no
\* length above 0 and the loop is passed over; items that is the text "a" is
\* looped over, its one character having no link; an item whose link is a number
\* throws at item.link.includes. What is thrown is caught at line 119.
SearchMalformed(d) ==
    /\ pc = "search"
    /\ searchResult' = "malformed"
    /\ examined' = d.taken
    /\ UNCHANGED << request, env, outcome, item, itemsLeft, foundIds >>
    /\ IF d.throws
       THEN /\ Respond(500, ErrorBody(d.message))
            /\ UNCHANGED << calls, redditSubmissionIds, loopVars, synthesisVars >>
       ELSE BeginLoop(<< >>)

\* foundIds after the loop body has taken an item with this link (lines 103-111)
foundIdsAfter(ids, link) ==
    IF link # "" /\ includes(link, "reddit.com")
    THEN LET submissionId == linkSubmissionId[link]
         IN  IF submissionId # "" THEN setAdd(ids, submissionId) ELSE ids
    ELSE ids

\* Whether the loop over the items stops after an item (line 112)
enoughIds(ids) == Len(ids) >= MAX_REDDIT_POSTS_TO_PROCESS

\* Lines 102-114: one iteration of the loop over the items, for an item with
\* this link; last says that no item follows it. The loop ends when enough ids
\* are found or the items are exhausted.
ScanItem(link, last) ==
    /\ pc = "scan"
    /\ examined < MaxItems
    /\ last \/ examined + 1 < MaxItems
    /\ examined' = examined + 1
    /\ item' = link
    /\ itemsLeft' = ~last
    /\ foundIds' = foundIdsAfter(foundIds, link)
    /\ UNCHANGED << request, env, searchResult, outcome >>
    /\ IF enoughIds(foundIds') \/ last
       THEN BeginLoop(foundIds')
       ELSE UNCHANGED << pc, responses, calls, redditSubmissionIds, loopVars, synthesisVars >>

\* relevantSummaries.map((s, i) => `Relevant Summary From Source ${i + 1}
\* (${s.source_link}):\n${s.summary}`).join('\n\n---\n\n') (line 219), for the
\* first n of them
RECURSIVE combinedContentOf(_, _)
combinedContentOf(relevant, n) ==
    IF n = 0 THEN ""
    ELSE (IF n = 1 THEN "" ELSE combinedContentOf(relevant, n - 1) \o "\n\n---\n\n")
         \o "Relevant Summary From Source " \o ToString(n)
         \o " (" \o relevant[n].source_link \o "):\n" \o relevant[n].summary

\* The synthesis prompt filled with every summary, the rejected ones included
synthesisPromptOfAll(question, relevant) ==
    [question |-> question,
     combinedContent |-> combinedContentOf(initialSummaries', Len(initialSummaries'))]

\* What the synthesis prompt (lines 221-232) is filled with
synthesisPromptOf(question, relevant) ==
    [question |-> question, combinedContent |-> combinedContentOf(relevant, Len(relevant))]

\* AfterLoop without the check for no relevant summary: the synthesis is always
\* requested
AfterLoopNoCheck(summaries) ==
    LET relevant == filterRelevant(summaries)
    IN  /\ relevantSummaries' = relevant
        /\ relevantSources' = [i \in 1..Len(relevant) |-> relevant[i].source_link]
        /\ synthesisPrompt' = synthesisPromptOf(request.question, relevant)
        /\ pc' = "synthesize"
        /\ calls' = Append(calls, Call("groq.synthesize", request.question))
        /\ responses' = responses

\* Lines 199-239: the summaries are filtered; with none relevant the handler
\* answers, otherwise the synthesis is requested.
AfterLoop(summaries) ==
    LET relevant == filterRelevant(summaries)
    IN  /\ relevantSummaries' = relevant
        /\ IF Len(relevant) = 0
           THEN /\ Respond(200, NoAnswersBody)
                /\ relevantSources' = relevantSources
                /\ synthesisPrompt' = synthesisPrompt
                /\ calls' = calls
           ELSE /\ relevantSources' = [i \in 1..Len(relevant) |-> relevant[i].source_link]
                /\ synthesisPrompt' = synthesisPromptOf(request.question, relevant)
                /\ pc' = "synthesize"
                /\ calls' = Append(calls, Call("groq.synthesize", request.question))
                /\ responses' = responses

\* The end of an iteration of the loop over redditSubmissionIds (line 133): the
\* next submission is requested, or the loop is over.
Continue(summaries, origin) ==
    /\ initialSummaries' = summaries
    /\ summaryOrigin' = origin
    /\ submission' = NoSubmission
    /\ topComments' = << >>
    /\ postLink' = ""
    /\ summaryPrompt' = NoPrompt
    /\ IF idx < Len(redditSubmissionIds)
       THEN /\ idx' = idx + 1
            /\ pc' = "fetch"
            /\ calls' = Append(calls, Call("reddit.getSubmission", redditSubmissionIds[idx + 1]))
            /\ UNCHANGED << responses, synthesisVars >>
       ELSE /\ idx' = idx
            /\ AfterLoop(summaries)

\* The catch of the loop body without the 401 return: every error is skipped
LoopCatchSkipsAll(error) ==
    Continue(initialSummaries, summaryOrigin)

\* The catch of the loop body returning on every error that carries a statusCode
LoopCatchAnyStatusCode(error) ==
    IF error.hasStatusCode
    THEN /\ Respond(401, ErrorBody("Reddit authentication failed."))
         /\ UNCHANGED << calls, loopVars, synthesisVars >>
    ELSE Continue(initialSummaries, summaryOrigin)

\* The catch of the loop body going once more through the iteration of a
\* submission whose first attempt failed
LoopCatchRetriesOnce(error) ==
    LET attempts ==
            { i \in 1..Len(calls) :
                calls[i] = Call("reddit.getSubmission", redditSubmissionIds[idx]) }
    IN  IF error.hasStatusCode /\ error.statusCode = 401
        THEN /\ Respond(401, ErrorBody("Reddit authentication failed."))
             /\ UNCHANGED << calls, loopVars, synthesisVars >>
        ELSE IF Cardinality(attempts) < 2
        THEN /\ pc' = "fetch"
             /\ calls' = Append(calls, Call("reddit.getSubmission", redditSubmissionIds[idx]))
             /\ submission' = NoSubmission
             /\ topComments' = << >>
             /\ postLink' = ""
             /\ summaryPrompt' = NoPrompt
             /\ UNCHANGED << responses, idx, initialSummaries, summaryOrigin, synthesisVars >>
        ELSE Continue(initialSummaries, summaryOrigin)

\* Lines 182-196: the catch of the loop body.
LoopCatch(error) ==
    LET hasStatusCode == error.hasStatusCode
    IN  IF hasStatusCode /\ error.statusCode = 401
        THEN /\ Respond(401, ErrorBody("Reddit authentication failed."))
             /\ UNCHANGED << calls, loopVars, synthesisVars >>
        ELSE Continue(initialSummaries, summaryOrigin)

\* Line 138 throws.
FetchThrows(error) ==
    /\ pc = "fetch"
    /\ outcome' = Threw("fetch", error)
    /\ LoopCatch(error)
    /\ UNCHANGED << request, env, searchResult, discoveryVars, redditSubmissionIds >>

\* The link without the site in front of the permalink
postLinkNoSite(sub) == sub.permalink

\* `https://reddit.com${submission.permalink || ''}` (line 140), a missing
\* permalink being written ""
postLinkOf(sub) == "https://reddit.com" \o sub.permalink

\* The submission going to the summary request whatever its comments are
FetchReturnsNoCommentsCheck(sub) ==
    /\ pc = "fetch"
    /\ outcome' = Fetched(sub.comments)
    /\ UNCHANGED << request, env, searchResult, discoveryVars, redditSubmissionIds >>
    /\ LET top == topCommentsOf(sub.comments.list)
       IN  /\ submission' = sub
           /\ topComments' = top
           /\ postLink' = postLinkOf(sub)
           /\ summaryPrompt' =
                  [question |-> request.question,
                   title |-> sub.title,
                   selftext |-> IF sub.selftext = "" THEN "N/A" ELSE sub.selftext,
                   commentsText |-> commentsTextOf(top, Len(top))]
           /\ pc' = "summarize"
           /\ calls' = Append(calls, Call("groq.summarize", redditSubmissionIds[idx]))
           /\ UNCHANGED << responses, idx, initialSummaries, summaryOrigin, synthesisVars >>

\* Lines 138-169: the submission arrives; without comments it is skipped,
\* otherwise its top comments go into the prompt of the summary request.
FetchReturns(sub) ==
    /\ pc = "fetch"
    /\ outcome' = Fetched(sub.comments)
    /\ UNCHANGED << request, env, searchResult, discoveryVars, redditSubmissionIds >>
    /\ IF sub.comments.kind # "array" \/ Len(sub.comments.list) = 0
       THEN Continue(initialSummaries, summaryOrigin)
       ELSE LET top == topCommentsOf(sub.comments.list)
            IN  IF Len(top) = 0
                THEN Continue(initialSummaries, summaryOrigin)
                ELSE /\ submission' = sub
                     /\ topComments' = top
                     /\ postLink' = postLinkOf(sub)
                     /\ summaryPrompt' =
                            [question |-> request.question,
                             title |-> sub.title,
                             selftext |-> IF sub.selftext = "" THEN "N/A"
                                          ELSE sub.selftext,
                             commentsText |-> commentsTextOf(top, Len(top))]
                     /\ pc' = "summarize"
                     /\ calls' = Append(calls, Call("groq.summarize", redditSubmissionIds[idx]))
                     /\ UNCHANGED << responses, idx, initialSummaries, summaryOrigin,
                                     synthesisVars >>

\* Line 164 throws.
SummarizeThrows(error) ==
    /\ pc = "summarize"
    /\ outcome' = Threw("summarize", error)
    /\ LoopCatch(error)
    /\ UNCHANGED << request, env, searchResult, discoveryVars, redditSubmissionIds >>

\* choices[0]?.message?.content?.trim(), "" standing for undefined as well: the
\* uses test its truthiness.
contentOf(completion) ==
    IF completion.hasContent THEN trim(completion.content) ELSE ""

\* The element put at the front instead of the end
unshift(list, element) == << element >> \o list

\* initialSummaries.push(...) (line 174), and the same for its origins
push(list, element) == Append(list, element)

\* Lines 171-181: the summary arrives and is kept when it has text.
SummarizeReturns(completion) ==
    /\ pc = "summarize"
    /\ outcome' = Returned("summarize", completion)
    /\ UNCHANGED << request, env, searchResult, discoveryVars, redditSubmissionIds >>
    /\ LET summaryText == contentOf(completion)
       IN  IF summaryText # ""
           THEN Continue(
                    push(initialSummaries, [summary |-> summaryText, source_link |-> postLink]),
                    push(summaryOrigin, redditSubmissionIds[idx]))
           ELSE Continue(initialSummaries, summaryOrigin)

\* Lines 248-256: the score is computed and the answer returned.
Finish(finalSummaryText) ==
    /\ Respond(200, AnswerBody(finalSummaryText, relevantSources,
                               calculateConfidence(Len(relevantSources))))
    /\ UNCHANGED << request, env, calls, searchResult, discoveryVars, redditSubmissionIds,
                    loopVars, synthesisVars >>

\* The error of the synthesis request reaching the outer catch (lines 258-275)
SynthesisThrowsToOuterCatch(error) ==
    /\ pc = "synthesize"
    /\ outcome' = Threw("synthesize", error)
    /\ Respond(IF error.hasStatus THEN error.status ELSE 500, ErrorBody(error.message))
    /\ UNCHANGED << request, env, calls, searchResult, discoveryVars, redditSubmissionIds,
                    loopVars, synthesisVars >>

\* Lines 242-246: the synthesis request throws.
SynthesisThrows(error) ==
    /\ pc = "synthesize"
    /\ outcome' = Threw("synthesize", error)
    /\ Finish("Error occurred while synthesizing the final answer.")

\* Lines 240-241: the synthesis arrives.
SynthesisReturns(completion) ==
    /\ pc = "synthesize"
    /\ outcome' = Returned("synthesize", completion)
    /\ LET text == contentOf(completion)
       IN  Finish(IF text # "" THEN text ELSE "Could not synthesize a final answer.")

\* ------------------------------------------------------------ specifications

Discovery ==
    \/ Receive
    \/ \E f \in GoogleFailurePool : SearchFails(f)
    \/ \E d \in GoogleMalformedPool : SearchMalformed(d)
    \/ SearchNoItems
    \/ SearchItems

Pipeline ==
    \/ \E e \in RedditErrorPool : FetchThrows(e)
    \/ /\ pc = "fetch"
       /\ \E sub \in SubmissionPool(redditSubmissionIds[idx]) : FetchReturns(sub)
    \/ \E e \in GroqErrorPool : SummarizeThrows(e)
    \/ \E c \in SummaryCompletionPool : SummarizeReturns(c)
    \/ \E e \in GroqErrorPool : SynthesisThrows(e)
    \/ \E c \in SynthesisCompletionPool : SynthesisReturns(c)

\* The handler on the result page PageLink(1), PageLink(2), ... cut at any length.
Next ==
    \/ Discovery
    \/ \E last \in BOOLEAN : ScanItem(PageLink(examined + 1), last)
    \/ Pipeline

Spec == Init /\ [][Next]_vars

\* The handler when every call it awaits settles, by returning or by throwing,
\* and the handler runs on after each.
SpecFair == Spec /\ WF_vars(Next)

\* The discovery alone, on every list of up to MaxItems results from LinkPool.
NextDiscovery ==
    \/ Discovery
    \/ \E k \in 1..Len(LinkPool), last \in BOOLEAN : ScanItem(Url(LinkPool[k]), last)

SpecDiscovery == Init /\ [][NextDiscovery]_vars

\* The handler on the first MaxFilterItems results of the page, every submission
\* arriving with one comment and every summary taken from FilterCompletionPool.
NextFilter ==
    \/ Receive
    \/ SearchItems
    \/ \E last \in BOOLEAN :
          /\ last \/ examined + 1 < MaxFilterItems
          /\ examined < MaxFilterItems
          /\ ScanItem(PageLink(examined + 1), last)
    \/ /\ pc = "fetch"
       /\ \E sub \in SubmissionPool(redditSubmissionIds[idx]) :
             /\ sub.comments.kind = "array"
             /\ Len(sub.comments.list) = 1
             /\ FetchReturns(sub)
    \/ \E c \in FilterCompletionPool : SummarizeReturns(c)
    \/ \E c \in SynthesisCompletionPool : SynthesisReturns(c)

SpecFilter == Init /\ [][NextFilter]_vars

\* The handler up to the first fetch of a submission, in every environment.
InitAnyEnv ==
    /\ request \in RequestPool
    /\ env \in ProcessEnvPool
    /\ InitHandler

NextSearch ==
    \/ Discovery
    \/ \E last \in BOOLEAN : ScanItem(PageLink(examined + 1), last)

SpecAnyEnv == InitAnyEnv /\ [][NextSearch]_vars

\* The handler on a result page of one thread link, up to the summary request,
\* the submission arriving with any list of up to MaxComments comments scored
\* from ScorePool.
NextSelector ==
    \/ Receive
    \/ SearchItems
    \/ ScanItem(Url(LinkPool[1]), TRUE)
    \/ /\ pc = "fetch"
       /\ \E n \in 0..MaxComments : \E f \in [1..n -> ScorePool] :
             FetchReturns([permalink |-> "/r/laptops/comments/1abcd2/best_budget_laptop/",
                           title |-> "Laptop advice", selftext |-> "",
                           comments |-> [kind |-> "array", list |-> CommentListOf(f, n)]])

SpecSelector == Init /\ [][NextSelector]_vars

\* -------------------------------------------------------------- properties

\* The one response of a finished request
Response == responses[1]
Done == pc = "done" /\ Len(responses) = 1

ForumOrModelCalls ==
    { i \in 1..Len(calls) :
        calls[i].api \in {"reddit.getSubmission", "groq.summarize", "groq.synthesize"} }
SynthesisCalls == { i \in 1..Len(calls) : calls[i].api = "groq.synthesize" }

\* Two characters that are the same letter in either case
SameLetter(a, b) ==
    \/ a = b
    \/ \E i \in 1..Len(LowerChars) :
          /\ {a, b} = {SubSeq(LowerChars, i, i), SubSeq(UpperChars, i, i)}

\* Whether phrase occurs in text, letter case ignored
OccursIgnoringCase(text, phrase) ==
    \E i \in 0..(Len(text) - Len(phrase)) :
        \A j \in 1..Len(phrase) :
            SameLetter(SubSeq(text, i + j, i + j), SubSeq(phrase, j, j))

MarkerPhrases ==
    { "does not provide any information", "is not about", "no relevant information",
      "unrelated to the question", "has nothing to do with", "not relevant to the question",
      "irrelevant to the question" }

HasMarker(text) == \E m \in MarkerPhrases : OccursIgnoringCase(text, m)
hasMarker == [t \in SummaryTexts |-> HasMarker(t)]

\* For each summary text and marker, whether the marker occurs in the text,
\* letter case ignored
occursIn == [t \in SummaryTexts |-> [m \in MarkerPhrases |-> OccursIgnoringCase(t, m)]]

\* The positions of the initial summaries that carry no marker
Unmarked == { i \in 1..Len(initialSummaries) : ~hasMarker[initialSummaries[i].summary] }

\* The loop over the submissions ran to its end (it was not left by the 401 return)
LoopOver ==
    /\ Len(redditSubmissionIds) >= 1
    /\ pc \in {"synthesize", "done"}
    /\ pc = "done" => Response.status # 401

\* C1: when the search succeeds and no submission id is found, the response is
\* exactly the "Could not find relevant Reddit discussions" answer with no
\* sources and confidence 0, and no Reddit or Groq call was issued.
C1_NotFoundWhenNoIds ==
    (searchResult = "ok" /\ pc # "scan" /\ Len(redditSubmissionIds) = 0) =>
        /\ pc = "done"
        /\ responses =
             << [status |-> 200,
                 body |-> [finalSummary |-> "Could not find relevant Reddit discussions via Google for this question.",
                           sources |-> << >>,
                           confidenceScore |-> 0]] >>
        /\ ForumOrModelCalls = {}

\* A result page with items, none of which gave an id
C1_Witness ==
    /\ searchResult = "ok" /\ pc = "done" /\ Len(redditSubmissionIds) = 0
    /\ examined >= 2
    /\ request.question = "best budget laptop"

\* The request ended in a synthesized answer
DoneSuccess == Done /\ SynthesisCalls # {}

\* C2: in every synthesized answer the confidence is min(50 + 10 N, 95), N being
\* the number of relevant summaries and the length of the sources: 60 for 1,
\* 80 for 3, 95 for 5, never above 95.
C2_ConfidenceOfSuccess ==
    DoneSuccess =>
        LET N == Cardinality(Unmarked)
            score == Response.body.confidenceScore
        IN  /\ Response.status = 200
            /\ N >= 1
            /\ Len(Response.body.sources) = N
            /\ Len(relevantSummaries) = N
            /\ score = IF 50 + 10 * N <= 95 THEN 50 + 10 * N ELSE 95
            /\ score <= 95
            /\ (N = 1 => score = 60) /\ (N = 3 => score = 80) /\ (N = 5 => score = 95)

\* Five relevant summaries: the ceiling applies
C2_Witness ==
    DoneSuccess /\ Len(Response.body.sources) = 5 /\ Response.body.confidenceScore = 95

\* C3: when ids were found, the loop was not left by the 401 return and no
\* summary is relevant (all carry a marker, or none was produced), the response is
\* the "Found some Reddit discussions" answer with no sources and confidence 15,
\* and the synthesis was never requested.
C3_NoAnswersWhenNoneRelevant ==
    (LoopOver /\ Unmarked = {}) =>
        /\ pc = "done"
        /\ responses =
             << [status |-> 200,
                 body |-> [finalSummary |-> "Found some Reddit discussions via Google, but couldn't extract direct answers.",
                           sources |-> << >>,
                           confidenceScore |-> 15]] >>
        /\ SynthesisCalls = {}

\* Two summaries were produced and both carry a marker
C3_Witness ==
    /\ LoopOver /\ Unmarked = {}
    /\ Len(initialSummaries) >= 2
    /\ Len(redditSubmissionIds) >= 3

\* C4: the filter keeps exactly the summaries whose text, letter case ignored,
\* contains none of the seven markers ("is not about" in any case excludes, no
\* marker retains); what it keeps is a subsequence of the initial summaries, in
\* their order and unaltered.
C4_FilterKeepsUnmarked ==
    LoopOver =>
        /\ relevantSummaries = SelectSeq(initialSummaries, LAMBDA s : ~hasMarker[s.summary])
        /\ \A i \in 1..Len(relevantSummaries) :
              ~occursIn[relevantSummaries[i].summary]["is not about"]
        /\ \A i \in 1..Len(initialSummaries) :
              (\A m \in MarkerPhrases : ~occursIn[initialSummaries[i].summary][m])
                  => \E j \in 1..Len(relevantSummaries) :
                        relevantSummaries[j] = initialSummaries[i]

\* A summary with "IS NOT ABOUT" in capitals is dropped, a later one that comes
\* close to the marker is kept
C4_Witness ==
    /\ LoopOver
    /\ Len(initialSummaries) = 2
    /\ initialSummaries[1].summary = "ThIS NOT ABOUT price"
    /\ initialSummaries[2].summary = "This is not  about price"
    /\ relevantSummaries = << initialSummaries[2] >>

\* The position of a submission id in the discovery order
PositionOf(id) == CHOOSE k \in 1..Len(redditSubmissionIds) : redditSubmissionIds[k] = id

\* The links a summary of submission id can carry
LinksFor(id) == { "https://reddit.com" \o sub.permalink : sub \in SubmissionPool(id) }

\* C5: the sources of a synthesized answer are exactly the links of the summaries
\* without a marker, in the order in which their submissions were discovered, and
\* each is the link of a summary produced for a discovered submission.
C5_SourcesInDiscoveryOrder ==
    DoneSuccess =>
        LET kept == SelectSeq(initialSummaries, LAMBDA s : ~hasMarker[s.summary])
        IN  /\ Response.body.sources = [i \in 1..Len(kept) |-> kept[i].source_link]
            /\ Len(summaryOrigin) = Len(initialSummaries)
            /\ \A i \in 1..Len(summaryOrigin) :
                  /\ \E k \in 1..Len(redditSubmissionIds) : redditSubmissionIds[k] = summaryOrigin[i]
                  /\ initialSummaries[i].source_link \in LinksFor(summaryOrigin[i])
            /\ \A i, j \in 1..Len(summaryOrigin) :
                  i < j => PositionOf(summaryOrigin[i]) < PositionOf(summaryOrigin[j])

\* Three submissions summarized, the second one's summary dropped by the filter:
\* the sources are the links of the first and the third, in that order
C5_Witness ==
    /\ DoneSuccess
    /\ Len(initialSummaries) = 3
    /\ summaryOrigin = SubSeq(redditSubmissionIds, 1, 3)
    /\ hasMarker[initialSummaries[2].summary]
    /\ Response.body.sources = << initialSummaries[1].source_link, initialSummaries[3].source_link >>
    /\ initialSummaries[1].source_link # initialSummaries[3].source_link

\* An error that is an authentication failure: HTTP 401 in statusCode (the Reddit
\* client) or in status (the Groq client)
IsAuthError(e) ==
    \/ e.hasStatusCode /\ e.statusCode = 401
    \/ e.hasStatus /\ e.status = 401

FetchAuthFailed ==
    outcome.stage = "fetch" /\ outcome.threw /\ IsAuthError(outcome.error)

\* C6: when the fetch of a submission fails with 401, the request ends at once
\* with status 401 and the body {error: 'Reddit authentication failed.'} alone,
\* whatever was summarized before, and no call follows the failed fetch.
C6_FetchAuthAborts ==
    /\ [](FetchAuthFailed =>
            /\ pc = "done"
            /\ responses =
                 << [status |-> 401, body |-> [error |-> "Reddit authentication failed."]] >>
            /\ DOMAIN Response.body = {"error"}
            /\ calls[Len(calls)] = Call("reddit.getSubmission", redditSubmissionIds[idx]))
    /\ [][FetchAuthFailed => (calls' = calls /\ responses' = responses)]_vars

\* The fetch of a later submission fails with 401 after a summary was produced
C6_Witness ==
    FetchAuthFailed /\ idx >= 2 /\ Len(initialSummaries) >= 1

\* C7 (as claimed, for the forum and model stages): an authentication failure
\* thrown by the fetch, the summary request or the synthesis request ends the
\* request at once with an authentication error response.
C7_AuthFailureIsFatal ==
    (outcome.threw /\ IsAuthError(outcome.error)) =>
        /\ pc = "done"
        /\ Response.status = 401
        /\ DOMAIN Response.body = {"error"}

\* A failure of the fetch or of the summary request that is no authentication failure
NonAuthLoopFailure(o) ==
    o.threw /\ o.stage \in {"fetch", "summarize"} /\ ~IsAuthError(o.error)

\* C8: a failure of the fetch or of the summary request that is no
\* authentication failure does not end the request: the submission adds no
\* summary, the summaries so far are kept, and the next submission in discovery
\* order is fetched (after the last one the filter runs and the answer is
\* success-shaped). With 2 ids and 1 relevant summary the answer has 1 source and
\* confidence 60.
C8_NonAuthFailureSkips ==
    /\ [][NonAuthLoopFailure(outcome') =>
            /\ initialSummaries' = initialSummaries
            /\ IF idx < Len(redditSubmissionIds)
               THEN /\ pc' = "fetch"
                    /\ idx' = idx + 1
                    /\ calls' = Append(calls, Call("reddit.getSubmission",
                                                   redditSubmissionIds[idx + 1]))
                    /\ responses' = << >>
               ELSE /\ pc' \in {"synthesize", "done"}
                    /\ pc' = "done" =>
                          /\ responses'[1].status = 200
                          /\ DOMAIN responses'[1].body = {"finalSummary", "sources", "confidenceScore"}]_vars
    /\ []((Done /\ Len(redditSubmissionIds) = 2 /\ Len(initialSummaries) = 1 /\ Unmarked = {1}
           /\ Response.status # 401) =>
            /\ Response.status = 200
            /\ Response.body.sources = << initialSummaries[1].source_link >>
            /\ Response.body.confidenceScore = 60)

\* The fetch of a later submission has just failed with 404: the summaries made
\* before are kept and the next submission is being fetched
C8_Witness ==
    /\ NonAuthLoopFailure(outcome)
    /\ outcome.stage = "fetch" /\ outcome.error.statusCode = 404
    /\ pc = "fetch" /\ idx >= 3
    /\ Len(initialSummaries) >= 1

\* Whether a text has nothing but white space
OnlyWhiteSpace(text) ==
    \A i \in 1..Len(text) : SubSeq(text, i, i) \in {" ", "\n", "\t"}

\* The synthesis request threw, or delivered no text
SynthesisFailed ==
    /\ Done
    /\ outcome.stage = "synthesize"
    /\ \/ outcome.threw
       \/ ~outcome.completion.hasContent
       \/ OnlyWhiteSpace(outcome.completion.content)

\* What C9 says of a failed synthesis, but for the text of finalSummary
SynthesisFailureShape ==
    LET kept == SelectSeq(initialSummaries, LAMBDA s : ~hasMarker[s.summary])
        N == Len(kept)
    IN  /\ Response.status = 200
        /\ DOMAIN Response.body = {"finalSummary", "sources", "confidenceScore"}
        /\ N >= 1
        /\ Response.body.sources = [i \in 1..N |-> kept[i].source_link]
        /\ Response.body.confidenceScore = IF 50 + 10 * N <= 95 THEN 50 + 10 * N ELSE 95

\* C9 (as claimed): when the synthesis fails, by an error or by an empty text,
\* the answer is success-shaped with finalSummary "Error occurred while
\* synthesizing the final answer.", the relevant sources in order and the
\* confidence min(50 + 10 N, 95).
C9_SynthesisFailureMessage ==
    SynthesisFailed =>
        /\ SynthesisFailureShape
        /\ Response.body.finalSummary = "Error occurred while synthesizing the final answer."

\* C9 (amended): finalSummary is "Error occurred while synthesizing the final
\* answer." when the synthesis request throws and "Could not synthesize a final
\* answer." when it delivers no text; the rest as claimed.
C9_SynthesisFailureDegrades ==
    SynthesisFailed =>
        /\ SynthesisFailureShape
        /\ Response.body.finalSummary =
              IF outcome.threw
              THEN "Error occurred while synthesizing the final answer."
              ELSE "Could not synthesize a final answer."

\* The synthesis request threw with two relevant summaries in hand
C9_Witness ==
    /\ SynthesisFailed /\ outcome.threw
    /\ Len(Response.body.sources) = 2
    /\ Response.body.confidenceScore = 70

\* The id a link of the pool is built around, when its host is the forum's and
\* the id has 6 to 10 characters; "" otherwise
ForumHosts == {"www.reddit.com", "reddit.com", "old.reddit.com"}
expectedId ==
    [link \in { Url(LinkPool[k]) : k \in 1..Len(LinkPool) } |->
        LET p == LinkPool[CHOOSE k \in 1..Len(LinkPool) : Url(LinkPool[k]) = link]
        IN  IF p.shape = "thread" /\ p.host \in ForumHosts /\ Len(p.id) \in 6..10
            THEN p.id ELSE ""]

IdsOf(ids) == { ids[i] : i \in 1..Len(ids) }

\* C10: the ids found have no duplicates and are at most 5; each item examined
\* adds its id at the end exactly when its link is a forum thread link whose id
\* is not yet among them (so the ids stand in the order of their first
\* occurrence); once 5 are found no further item is examined; and the ids found
\* are the ids the loop over the submissions takes.
C10_DiscoveredIds ==
    /\ [](/\ Len(foundIds) <= 5
          /\ Cardinality(IdsOf(foundIds)) = Len(foundIds)
          /\ (searchResult = "ok" /\ pc # "scan") => redditSubmissionIds = foundIds)
    /\ [][examined' # examined =>
            /\ examined' = examined + 1
            /\ Len(foundIds) < 5
            /\ foundIds' =
                 IF expectedId[item'] # "" /\ expectedId[item'] \notin IdsOf(foundIds)
                 THEN Append(foundIds, expectedId[item'])
                 ELSE foundIds]_vars
    /\ [][foundIds' # foundIds => examined' # examined]_vars

\* Five ids were found among more than five items, and items were left
C10_Witness ==
    /\ Len(redditSubmissionIds) = 5
    /\ examined >= 7
    /\ itemsLeft
    /\ pc = "fetch"

\* The request carries no question that is a non-empty text
QuestionInvalid ==
    request.body # "object" \/ request.qtype # "string" \/ request.question = ""

\* C11 (as claimed): a request whose question is missing or is not text is
\* answered, before the search, with a client-error status (4xx) and a body that
\* has the error field alone, and no search, Reddit or Groq call is issued.
C11_InvalidQuestionRejected ==
    (QuestionInvalid /\ pc # "received") =>
        /\ Done
        /\ Response.status \in 400..499
        /\ DOMAIN Response.body = {"error"}
        /\ calls = << >>

\* Some setting of the search, the Reddit client or the Groq client has no value
CredentialMissing == \E n \in EnvNames : ~env[n]

\* C12 (as claimed): when a credential of the search (key or engine id), of the
\* Reddit client or of the Groq client is absent, a request with a valid question
\* is answered, before the search, with an error body alone, and no search,
\* Reddit or Groq call is issued.
C12_MissingCredentialRejected ==
    (~QuestionInvalid /\ CredentialMissing /\ pc # "received") =>
        /\ Done
        /\ Response.status >= 400
        /\ DOMAIN Response.body = {"error"}
        /\ calls = << >>

\* The search request failed, or delivered a page that is not of the documented shape
SearchFailed == searchResult \in {"rejects", "notJson", "notOk", "malformed"}

\* C13 (as claimed): when the search request fails (it rejects, or its status is
\* not ok) or delivers malformed data, the request ends with a server-error
\* status and a body that has the error field alone, no Reddit or Groq call is
\* issued, and the response is never success-shaped.
C13_SearchFailureIsServerError ==
    SearchFailed =>
        /\ Done
        /\ Response.status \in 500..599
        /\ DOMAIN Response.body = {"error"}
        /\ ForumOrModelCalls = {}

\* C14 (as claimed): the links of the summaries are a function of the ids they
\* were produced for that never gives two ids the same link: summaries of
\* different submissions never carry the same source_link.
C14_LinkDeterminedById ==
    \A i, j \in 1..Len(initialSummaries) :
        summaryOrigin[i] # summaryOrigin[j] =>
            initialSummaries[i].source_link # initialSummaries[j].source_link

\* C14 (amended): every summary is produced for the submission being processed
\* and carries as source_link the text "https://reddit.com" followed by the
\* permalink fetched for that submission, or that text alone when the permalink
\* is missing; links and origins stay as they are once produced.
C14_LinkFromPermalink ==
    /\ [](Len(summaryOrigin) = Len(initialSummaries))
    /\ [][initialSummaries' # initialSummaries =>
            /\ pc = "summarize"
            /\ Len(initialSummaries') = Len(initialSummaries) + 1
            /\ SubSeq(initialSummaries', 1, Len(initialSummaries)) = initialSummaries
            /\ SubSeq(summaryOrigin', 1, Len(summaryOrigin)) = summaryOrigin
            /\ summaryOrigin'[Len(summaryOrigin')] = redditSubmissionIds[idx]
            /\ LET link == initialSummaries'[Len(initialSummaries')].source_link
               IN  /\ Len(link) = 18 + Len(submission.permalink)
                   /\ SubSeq(link, 1, 18) = "https://reddit.com"
                   /\ SubSeq(link, 19, Len(link)) = submission.permalink]_vars

\* Two summaries of different submissions, the first fetched without a
\* permalink and the second with one
C14_Witness ==
    /\ Len(initialSummaries) = 2
    /\ summaryOrigin[1] # summaryOrigin[2]
    /\ initialSummaries[1].source_link = "https://reddit.com"
    /\ Len(initialSummaries[2].source_link) > 18

\* The request ended in a response that has finalSummary, sources and confidenceScore
SuccessShaped ==
    Done /\ DOMAIN Response.body = {"finalSummary", "sources", "confidenceScore"}

\* C15: in every success-shaped response the confidence is one of 0, 15, 60, 70,
\* 80, 90, 95: 0 exactly when no id was discovered, 15 exactly when ids were
\* discovered and no summary is without a marker, 60 to 95 exactly when there are
\* sources; the sources are empty exactly when the confidence is 0 or 15, and
\* they are never more than 5.
C15_ConfidenceValues ==
    SuccessShaped =>
        LET score == Response.body.confidenceScore
            sources == Response.body.sources
        IN  /\ Response.status = 200
            /\ score \in {0, 15, 60, 70, 80, 90, 95}
            /\ (score = 0) <=> (Len(redditSubmissionIds) = 0)
            /\ (score = 15) <=> (Len(redditSubmissionIds) > 0 /\ Unmarked = {})
            /\ (score \in 60..95) <=> (Len(sources) > 0)
            /\ (Len(sources) = 0) <=> (score \in {0, 15})
            /\ Len(sources) <= 5

\* An answer with four sources, one summary of five having been dropped
C15_Witness ==
    /\ SuccessShaped
    /\ Response.body.confidenceScore = 90
    /\ Len(Response.body.sources) = 4
    /\ Len(initialSummaries) = 5

\* The positions of the calls to an api, and to an api for an id
CallsTo(api) == { i \in 1..Len(calls) : calls[i].api = api }
CallsFor(api, id) == { i \in CallsTo(api) : calls[i].arg = id }

\* C16: within one request the search is called at most once, the fetch at most
\* once for each id and only for discovered ids, the summary request at most once
\* for each id and only after the fetch of that id, and the synthesis at most
\* once, whether the calls before succeeded, were skipped or failed.
C16_NoCallRepeated ==
    /\ Cardinality(CallsTo("google.search")) <= 1
    /\ Cardinality(CallsTo("groq.synthesize")) <= 1
    /\ \A i \in CallsTo("reddit.getSubmission") :
          /\ \E k \in 1..Len(redditSubmissionIds) : redditSubmissionIds[k] = calls[i].arg
          /\ CallsFor("reddit.getSubmission", calls[i].arg) = {i}
    /\ \A i \in CallsTo("groq.summarize") :
          /\ CallsFor("groq.summarize", calls[i].arg) = {i}
          /\ \E j \in CallsFor("reddit.getSubmission", calls[i].arg) : j < i
    /\ Len(calls) <= 2 + 2 * Len(redditSubmissionIds)

\* The summary request of the second submission has just failed with a rate
\* limit, and the third submission is being fetched
C16_Witness ==
    /\ outcome.threw /\ outcome.stage = "summarize" /\ outcome.error.status = 429
    /\ pc = "fetch" /\ idx = 3
    /\ Cardinality(CallsTo("groq.summarize")) = 2

\* A step in which the fetch of the submission being processed delivers it
FetchDelivers == pc = "fetch" /\ outcome'.stage = "fetch" /\ ~outcome'.threw

\* A step in which the summary request of the submission being processed returns
SummaryDelivers == pc = "summarize" /\ outcome'.stage = "summarize" /\ ~outcome'.threw

\* The comments delivered are a list with at least one comment
IsNonEmptyList(comments) == comments.kind = "array" /\ Len(comments.list) >= 1

\* The completion has text that is more than white space
HasText(completion) == completion.hasContent /\ ~OnlyWhiteSpace(completion.content)

\* A step that leaves the summaries as they are and goes on to the next
\* submission, or past the loop when there is none, with no error response
SkipsToNext ==
    /\ initialSummaries' = initialSummaries
    /\ IF idx < Len(redditSubmissionIds)
       THEN /\ pc' = "fetch"
            /\ idx' = idx + 1
            /\ calls' = Append(calls, Call("reddit.getSubmission", redditSubmissionIds[idx + 1]))
            /\ responses' = << >>
       ELSE /\ pc' \in {"synthesize", "done"}
            /\ CallsTo("groq.summarize") = { i \in 1..Len(calls') : calls'[i].api = "groq.summarize" }
            /\ pc' = "done" =>
                  /\ responses'[1].status = 200
                  /\ DOMAIN responses'[1].body = {"finalSummary", "sources", "confidenceScore"}

\* C18: a summary is added exactly by a step in which the summary request of the
\* submission being processed returns text that is more than white space, the
\* fetch of that submission having delivered a non-empty list of comments; a
\* fetch that delivers comments that are missing, not a list or empty skips the
\* submission with no summary request for it, a summary request that returns no
\* text skips it with no error, and in both cases the next submission is taken.
C18_WhenASummaryIsAdded ==
    /\ [][initialSummaries' # initialSummaries =>
            /\ SummaryDelivers /\ HasText(outcome'.completion)
            /\ IsNonEmptyList(submission.comments)
            /\ CallsFor("reddit.getSubmission", redditSubmissionIds[idx]) # {}
            /\ Len(initialSummaries') = Len(initialSummaries) + 1
            /\ summaryOrigin'[Len(summaryOrigin')] = redditSubmissionIds[idx]]_vars
    /\ [][(SummaryDelivers /\ HasText(outcome'.completion)) =>
            Len(initialSummaries') = Len(initialSummaries) + 1]_vars
    /\ [][(FetchDelivers /\ IsNonEmptyList(outcome'.comments)) =>
            /\ pc' = "summarize"
            /\ calls' = Append(calls, Call("groq.summarize", redditSubmissionIds[idx]))
            /\ submission'.comments = outcome'.comments]_vars
    /\ [][(FetchDelivers /\ ~IsNonEmptyList(outcome'.comments)) =>
            /\ SkipsToNext
            /\ { i \in 1..Len(calls') : calls'[i] = Call("groq.summarize", redditSubmissionIds[idx]) } = {}]_vars
    /\ [][(SummaryDelivers /\ ~HasText(outcome'.completion)) => SkipsToNext]_vars

\* The second submission has just been skipped for its empty list of comments
\* with one summary in hand, and the third is being fetched
C18_Witness ==
    /\ outcome.stage = "fetch" /\ ~outcome.threw
    /\ outcome.comments = [kind |-> "array", list |-> << >>]
    /\ pc = "fetch" /\ idx = 3
    /\ Len(initialSummaries) = 1
    /\ CallsTo("groq.summarize") = {3}

\* The score a comment is ranked by: 0 when it has none
RankOf(c) == IF c.hasScore /\ c.score # 0 THEN c.score ELSE 0

\* The place of a comment of the fetched list, found by its body
PlaceIn(list, c) == CHOOSE k \in 1..Len(list) : list[k].body = c.body

\* Whether comment a stands before comment b in the ranking: higher score first,
\* equal scores in the order of the list
RanksBefore(list, a, b) ==
    \/ RankOf(a) > RankOf(b)
    \/ RankOf(a) = RankOf(b) /\ PlaceIn(list, a) < PlaceIn(list, b)

\* The lines "1. <body>", "2. <body>", ... of the comments from the i-th on,
\* joined by line breaks
RECURSIVE NumberedLines(_, _)
NumberedLines(list, i) ==
    IF i > Len(list) THEN ""
    ELSE ToString(i) \o ". " \o list[i].body
         \o (IF i < Len(list) THEN "\n" \o NumberedLines(list, i + 1) ELSE "")

\* C19: when the summary is requested, the comments selected are the first
\* min(3, length) of the fetched comments ranked by score, highest first, a missing
\* or zero score counting as 0 and equal scores keeping the order of the list;
\* they are at most 3, and the prompt numbers them 1..K in that order.
C19_TopCommentsSelected ==
    pc = "summarize" =>
        LET list == submission.comments.list
            K == IF Len(list) < 3 THEN Len(list) ELSE 3
        IN  /\ Len(topComments) = K
            /\ Len(topComments) <= 3
            /\ \A i \in 1..K : \E k \in 1..Len(list) : list[k] = topComments[i]
            /\ \A i, j \in 1..K : i < j => RanksBefore(list, topComments[i], topComments[j])
            /\ \A k \in 1..Len(list) :
                  (\A i \in 1..K : topComments[i] # list[k]) =>
                      \A i \in 1..K : RanksBefore(list, topComments[i], list[k])
            /\ summaryPrompt.commentsText = NumberedLines(topComments, 1)

\* Five comments with scores 1, none, 2, 1, -1: the third, the first and the
\* fourth are selected, in that order
C19_Witness ==
    /\ pc = "summarize"
    /\ Len(submission.comments.list) = 5
    /\ [i \in 1..5 |-> RankOf(submission.comments.list[i])] = << 1, 0, 2, 1, -1 >>
    /\ ~submission.comments.list[2].hasScore
    /\ [i \in 1..3 |-> topComments[i].body] = << "c3", "c1", "c4" >>
    /\ summaryPrompt.commentsText = "1. c3\n2. c1\n3. c4"

\* The stage the handler is in: 0 on entry, 1 discovering, 2 extracting,
\* 4 synthesizing (the filter, 3, runs within the step that leaves the loop),
\* 5 after the score is computed and the response returned
StageOf(p) ==
    CASE p = "received" -> 0
      [] p \in {"search", "scan"} -> 1
      [] p \in {"fetch", "summarize"} -> 2
      [] p = "synthesize" -> 4
      [] p = "done" -> 5

\* The terminal outcomes of a finished request
DoneEmpty ==
    /\ SuccessShaped /\ Response.body.confidenceScore = 0
    /\ ForumOrModelCalls = {}
DoneUnanswerable ==
    /\ SuccessShaped /\ Response.body.confidenceScore = 15
    /\ CallsTo("reddit.getSubmission") # {} /\ SynthesisCalls = {}
DoneAnswered ==
    /\ SuccessShaped /\ Response.body.confidenceScore >= 60
    /\ SynthesisCalls # {}
DoneFatal == Done /\ DOMAIN Response.body = {"error"} /\ Response.status >= 400

\* The fetch calls issued so far are for the first ids discovered, in their order
FetchesInDiscoveryOrder ==
    \A i \in CallsTo("reddit.getSubmission") :
        LET n == Cardinality({ j \in CallsTo("reddit.getSubmission") : j <= i })
        IN  n <= Len(redditSubmissionIds) /\ calls[i].arg = redditSubmissionIds[n]

\* The texts of the summaries with a marker, and of those without
RejectedTexts ==
    { initialSummaries[i].summary : i \in (1..Len(initialSummaries)) \ Unmarked }
KeptTexts == { initialSummaries[i].summary : i \in Unmarked }

\* C20: the stages follow one another in the order discovering, extracting,
\* filtering, synthesizing, scoring and never go back; a request whose every call
\* settles reaches "done", with exactly one response that is one of: no
\* discussion found, no answer extracted, an answer, a fatal error; nothing
\* happens after the response. Submissions are fetched one at a time in the order
\* of discovery, each summary request coming right after the fetch of its
\* submission; the filter runs after the last submission was fetched; the
\* synthesis is requested only then and only with a relevant summary; no summary
\* with a marker is in the synthesis prompt, and the sources are the links of
\* the summaries without a marker alone.
C20_StagesInOrder ==
    /\ <>(pc = "done")
    /\ [][/\ pc # "done"
          /\ StageOf(pc') >= StageOf(pc)
          /\ idx' \in {idx, idx + 1}
          /\ (pc = "summarize" /\ pc' = "summarize") => FALSE
          /\ (pc = "synthesize") => pc' = "done"]_vars
    /\ [](/\ Len(responses) <= 1
          /\ (pc = "done") <=> (Len(responses) = 1)
          /\ Done =>
                Cardinality({ o \in {"empty", "unanswerable", "answered", "fatal"} :
                    \/ o = "empty" /\ DoneEmpty
                    \/ o = "unanswerable" /\ DoneUnanswerable
                    \/ o = "answered" /\ DoneAnswered
                    \/ o = "fatal" /\ DoneFatal }) = 1)
    /\ [](/\ FetchesInDiscoveryOrder
          /\ \A i \in CallsTo("groq.summarize") :
                i > 1 /\ calls[i - 1] = Call("reddit.getSubmission", calls[i].arg))
    /\ [][relevantSummaries' # relevantSummaries =>
            /\ pc \in {"fetch", "summarize"}
            /\ idx = Len(redditSubmissionIds)
            /\ Cardinality(CallsTo("reddit.getSubmission")) = Len(redditSubmissionIds)]_vars
    /\ []((SynthesisCalls # {}) =>
            /\ SynthesisCalls = {Len(calls)}
            /\ Cardinality(CallsTo("reddit.getSubmission")) = Len(redditSubmissionIds)
            /\ Len(relevantSummaries) >= 1
            /\ relevantSummaries = SelectSeq(initialSummaries, LAMBDA s : ~hasMarker[s.summary])
            /\ synthesisPrompt.question = request.question
            /\ \A t \in RejectedTexts : ~includes(synthesisPrompt.combinedContent, t)
            /\ \A t \in KeptTexts : includes(synthesisPrompt.combinedContent, t))
    /\ [](DoneAnswered =>
            /\ Len(Response.body.sources) = Cardinality(Unmarked)
            /\ \A i \in 1..Len(relevantSummaries) :
                  /\ Response.body.sources[i] = relevantSummaries[i].source_link
                  /\ ~hasMarker[relevantSummaries[i].summary])

\* An answer from five submissions: one skipped, one summary rejected, three kept
C20_Witness ==
    /\ DoneAnswered
    /\ Len(redditSubmissionIds) = 5
    /\ Len(initialSummaries) = 4
    /\ Cardinality(Unmarked) = 3
    /\ Len(calls) = 11

====
